---------------------------- MODULE Spec2Model ----------------------------
(***************************************************************************)
(* Point allocation and result aggregation of otter test files             *)
(* (otter/test_files/abstract_test.py).                                    *)
(*                                                                         *)
(* Numbers.  Python ints are exact and true division yields a float; the   *)
(* model carries every number as an exact rational [k, n, d] in lowest     *)
(* terms with d > 0, so a quotient is the real number the float            *)
(* approximates.  Equalities established here are equalities of those real *)
(* values; the last-bit rounding of a float sum is outside the model.      *)
(*                                                                         *)
(* A point value is None, a number, or a value of another type (a str),   *)
(* which the allocator rejects.                                            *)
(***************************************************************************)
EXTENDS Integers, Sequences, FiniteSets, TLC

VARIABLES
    pc,                 \* allocator call: "call" before, "return" after it
    total_points,       \* argument of resolve_test_file_points
    arg_cases,          \* argument test_cases: the sequence of their points
    outcome,            \* what the call raised or returned
    test_cases,         \* per TestFile instance: self.test_cases
    all_or_nothing,     \* per TestFile instance: self.all_or_nothing
    test_case_results,  \* per TestFile instance: self.test_case_results
    _score,             \* per TestFile instance: self._score
    raised              \* the exception the last operation on a TestFile raised

vars == <<pc, total_points, arg_cases, outcome,
          test_cases, all_or_nothing, test_case_results, _score, raised>>

allocVars == <<pc, total_points, arg_cases, outcome>>
fileVars == <<test_cases, all_or_nothing, test_case_results, _score, raised>>

---------------------------------------------------------------------------
(* Bounds *)

\* longest test-case list handed to the allocator
MaxCases == 3
\* longest test-case list of a constructed TestFile
MaxFileCases == 2
\* most TestCaseResults appended over all TestFile instances
MaxResults == 2

---------------------------------------------------------------------------
(* Exact rational arithmetic for Python's int / float values *)

Abs(x) == IF x < 0 THEN -x ELSE x

RECURSIVE Gcd(_, _)
Gcd(a, b) == IF b = 0 THEN a ELSE Gcd(b, a % b)

\* the number n/d (d # 0) in lowest terms with a positive denominator
Num(n, d) ==
    LET g == Gcd(Abs(n), Abs(d))
        s == IF d < 0 THEN -1 ELSE 1
    IN  [k |-> "num", n |-> (s * n) \div g, d |-> (s * d) \div g]

Whole(i) == Num(i, 1)
Zero == Whole(0)
One == Whole(1)

\* None, and a value that is neither None, an int nor a float
None == [k |-> "none", n |-> 0, d |-> 1]
Other == [k |-> "other", n |-> 0, d |-> 1]

Add(a, b) == Num(a.n * b.d + b.n * a.d, a.d * b.d)
Sub(a, b) == Num(a.n * b.d - b.n * a.d, a.d * b.d)
\* a / b for b # 0
Div(a, b) == Num(a.n * b.d, a.d * b.n)
Less(a, b) == a.n * b.d < b.n * a.d
Leq(a, b) == a.n * b.d <= b.n * a.d

\* Python's sum() over a sequence of numbers, left to right from 0
RECURSIVE Sum(_)
Sum(s) == IF s = <<>> THEN Zero ELSE Add(Sum(SubSeq(s, 1, Len(s) - 1)), s[Len(s)])

\* the number of entries of s that are None
CountNone(s) == Len(SelectSeq(s, LAMBDA p : p = None))

---------------------------------------------------------------------------
(* TestFile.resolve_test_file_points *)

\* total_points as passed by the caller: None, an int or float, a list, or
\* a value of any other type
TotalNone == [kind |-> "none", num |-> Zero, list |-> <<>>]
TotalNum(x) == [kind |-> "num", num |-> x, list |-> <<>>]
TotalList(l) == [kind |-> "list", num |-> Zero, list |-> l]
TotalOther == [kind |-> "other", num |-> Zero, list |-> <<>>]

\* outcomes: the returned list of points, or the exception raised.
\*   LengthMismatch  ValueError("Points specified in test has different
\*                   length than number of test cases")
\*   OverAllocation  ValueError("More points specified in test cases than
\*                   allowed for test")
\*   InvalidPointType  the TypeError for total_points, the AssertionError for
\*                   a test case's points
Returned(points) == [err |-> "ok", points |-> points]
Raised(e) == [err |-> e, points |-> <<>>]
NoOutcome == [err |-> "pending", points |-> <<>>]

\* lines 150-154: a list total overwrites every case's points positionally
\* and leaves no file-level total
OverwrittenCases(total, cases) ==
    IF total.kind = "list" THEN [i \in 1..Len(cases) |-> total.list[i]] ELSE cases

EffectiveTotal(total) == IF total.kind = "list" THEN TotalNone ELSE total

\* line 168: sum(p for p in point_values if p is not None)
PreSpecified(point_values) == Sum(SelectSeq(point_values, LAMBDA p : p # None))

\* a faulty share: the remainder of a numeric total divided by the number of
\* all cases instead of the unset ones
PerRemainingOverAllCases(total, point_values) ==
    LET pre_specified == PreSpecified(point_values)
        unset == CountNone(point_values)
    IN  IF total.kind = "num"
        THEN IF Len(point_values) = 0 THEN Zero
             ELSE Div(Sub(total.num, pre_specified), Whole(Len(point_values)))
        ELSE IF pre_specified = Zero
                /\ \A i \in 1..Len(point_values) : point_values[i] \in {Zero, None}
             THEN IF unset = 0 THEN Zero ELSE Div(One, Whole(unset))
             ELSE IF pre_specified = Zero
                  THEN Div(One, Whole(Len(point_values)))
                  ELSE Zero

\* a faulty share: without the only-zeros branch, so that the implicit total
\* of 1 is divided by the number of all cases
PerRemainingNoZerosBranch(total, point_values) ==
    LET pre_specified == PreSpecified(point_values)
        unset == CountNone(point_values)
    IN  IF total.kind = "num"
        THEN IF unset = 0 THEN Zero
             ELSE Div(Sub(total.num, pre_specified), Whole(unset))
        ELSE IF pre_specified = Zero
             THEN IF Len(point_values) = 0 THEN Zero
                  ELSE Div(One, Whole(Len(point_values)))
             ELSE Zero

\* a faulty share: the implicit total of 1 divided among the unset cases
\* also when explicit non-zero points are present
PerRemainingAlwaysShares(total, point_values) ==
    LET pre_specified == PreSpecified(point_values)
        unset == CountNone(point_values)
    IN  IF total.kind = "num"
        THEN IF unset = 0 THEN Zero
             ELSE Div(Sub(total.num, pre_specified), Whole(unset))
        ELSE IF pre_specified = Zero
                /\ \A i \in 1..Len(point_values) : point_values[i] \in {Zero, None}
             THEN IF unset = 0 THEN Zero ELSE Div(One, Whole(unset))
             ELSE IF pre_specified = Zero
                  THEN Div(One, Whole(Len(point_values)))
                  ELSE IF unset = 0 THEN Zero ELSE Div(One, Whole(unset))

\* lines 169-192: the share given to each case whose points are None
PerRemaining(total, point_values) ==
    LET pre_specified == PreSpecified(point_values)
        unset == CountNone(point_values)
    IN  IF total.kind = "num"
        THEN IF unset = 0 THEN Zero
             ELSE Div(Sub(total.num, pre_specified), Whole(unset))
        ELSE IF pre_specified = Zero
                /\ \A i \in 1..Len(point_values) : point_values[i] \in {Zero, None}
             THEN IF unset = 0 THEN Zero ELSE Div(One, Whole(unset))
             ELSE IF pre_specified = Zero
                  THEN Div(One, Whole(Len(point_values)))
                  ELSE Zero

\* a faulty length check: only a list shorter than the test cases is caught
LengthMismatchedShorter(total, cases) ==
    total.kind = "list" /\ Len(total.list) < Len(cases)

\* line 151: len(total_points) != len(test_cases), for a list total
LengthMismatched(total, cases) ==
    total.kind = "list" /\ Len(total.list) # Len(cases)

\* a faulty check: >= in place of >
OverAllocatedOrEqual(total, point_values) ==
    total.kind = "num" /\ Leq(total.num, PreSpecified(point_values))

\* line 170: pre_specified > total_points, for a numeric total
OverAllocated(total, point_values) ==
    total.kind = "num" /\ Less(total.num, PreSpecified(point_values))

\* lines 149-195
ResolveTestFilePoints(total, cases) ==
    IF LengthMismatched(total, cases)
    THEN Raised("LengthMismatch")
    ELSE IF total.kind = "other"
    THEN Raised("InvalidPointType")
    ELSE LET point_values == OverwrittenCases(total, cases)
             tp == EffectiveTotal(total)
         IN  IF \E i \in 1..Len(point_values) : point_values[i].k = "other"
             THEN Raised("InvalidPointType")
             ELSE IF OverAllocated(tp, point_values)
             THEN Raised("OverAllocation")
             ELSE LET per_remaining == PerRemaining(tp, point_values)
                  IN  Returned([i \in 1..Len(point_values) |->
                                  IF point_values[i] # None THEN point_values[i]
                                  ELSE per_remaining])

---------------------------------------------------------------------------
(* Inputs of the allocator *)

\* points a test author writes on a case
CasePoints == {None, Other, Whole(-1), Whole(0), Whole(1), Whole(2)}
\* a file-level total given as one number
TotalNumbers == {Whole(-1), Whole(0), Whole(1), Whole(2), Whole(3), Whole(5)}
\* entries of a file-level total given as a list
ListPoints == {Whole(0), Whole(1)}

SeqsUpTo(S, n) == UNION {[1..m -> S] : m \in 0..n}

CaseLists == SeqsUpTo(CasePoints, MaxCases)
Totals == {TotalNone, TotalOther} \cup {TotalNum(x) : x \in TotalNumbers}
            \cup {TotalList(l) : l \in SeqsUpTo(ListPoints, MaxCases + 1)}

---------------------------------------------------------------------------
(* TestFile instances: idle while the allocator alone is exercised *)

FileIds == {"a", "b"}

\* the last operation returned: nothing is raised
NoException == "none"

FilesIdle ==
    /\ test_cases = [f \in FileIds |-> <<>>]
    /\ all_or_nothing = [f \in FileIds |-> TRUE]
    /\ test_case_results = [f \in FileIds |-> <<>>]
    /\ _score = [f \in FileIds |-> None]
    /\ raised = NoException

---------------------------------------------------------------------------
(* The allocator as a one-call state machine *)

InitAlloc ==
    /\ pc = "call"
    /\ total_points \in Totals
    /\ arg_cases \in CaseLists
    /\ outcome = NoOutcome
    /\ FilesIdle

Resolve ==
    /\ pc = "call"
    /\ pc' = "return"
    /\ outcome' = ResolveTestFilePoints(total_points, arg_cases)
    /\ UNCHANGED <<total_points, arg_cases>>
    /\ UNCHANGED fileVars

NextAlloc == Resolve

SpecAlloc == InitAlloc /\ [][NextAlloc]_vars

---------------------------------------------------------------------------
(* TestFile: construction and the derived properties *)

\* a TestCase: its name (its position in the file) and its points
TestCase(name, points) == [name |-> name, points |-> points]
\* a TestCaseResult: the TestCase it refers to and whether it passed
TestCaseResult(tc, passed) == [test_case |-> tc, passed |-> passed]

\* what a loader hands to the allocator before it constructs a TestFile:
\* cases with points unset or 0 and no total, or a list total that sets
\* every case's points, negative ones included
LoaderPoints == {None, Zero}
LoaderTotals == {TotalNone, TotalList(<<Whole(-1)>>), TotalList(<<Whole(-1), One>>)}

\* the lists of resolved points the allocator returns for those inputs
LoadedPoints ==
    {ResolveTestFilePoints(t, c).points :
        <<t, c>> \in {x \in LoaderTotals \X SeqsUpTo(LoaderPoints, MaxFileCases) :
                        ResolveTestFilePoints(x[1], x[2]).err = "ok"}}

\* the test cases of a file, carrying the points the allocator resolved
CasesOf(points) == [i \in 1..Len(points) |-> TestCase(i, points[i])]

\* scores a grader sets by hand
OverrideValues == {Whole(0), Whole(2)}

\* the read of a property that raises ZeroDivisionError has this for a value
ZeroDivisionError == [k |-> "ZeroDivisionError", n |-> 0, d |-> 1]

\* a faulty passed_all: any() in place of all()
PassedAny(results) == \E j \in 1..Len(results) : results[j].passed

\* lines 197-199, over self.test_case_results
PassedAll(results) == \A j \in 1..Len(results) : results[j].passed

\* sum(tc.points for tc in cases[:m])
RECURSIVE SumCasePoints(_, _)
SumCasePoints(cases, m) ==
    IF m = 0 THEN Zero ELSE Add(SumCasePoints(cases, m - 1), cases[m].points)

\* sum(tcr.test_case.points for tcr in results[:m] if tcr.passed)
RECURSIVE SumPassedPoints(_, _)
SumPassedPoints(results, m) ==
    IF m = 0 THEN Zero
    ELSE IF results[m].passed
         THEN Add(SumPassedPoints(results, m - 1), results[m].test_case.points)
         ELSE SumPassedPoints(results, m - 1)

\* a faulty sum: the points of the last passed result, assigned instead of
\* accumulated
RECURSIVE LastPassedPoints(_, _)
LastPassedPoints(results, m) ==
    IF m = 0 THEN Zero
    ELSE IF results[m].passed THEN results[m].test_case.points
         ELSE LastPassedPoints(results, m - 1)

PassedPointsLast(results) == LastPassedPoints(results, Len(results))

\* lines 216 and 223: the points of the results that passed
PassedPoints(results) == SumPassedPoints(results, Len(results))

\* lines 225-227, over self.test_cases
Possible(cases) == SumCasePoints(cases, Len(cases))

\* a faulty score: the override tested for truth, so that 0 is no override
ScoreTruthy(override, results) ==
    IF override # None /\ override # Zero THEN override ELSE PassedPoints(results)

\* lines 219-223, over self._score and self.test_case_results
Score(override, results) ==
    IF override # None THEN override ELSE PassedPoints(results)

\* a faulty grade: 0 instead of the division by zero
GradeZeroWhenNoPoints(flag, cases, results) ==
    IF flag /\ ~PassedAll(results) THEN Zero
    ELSE IF flag /\ PassedAll(results) THEN One
    ELSE IF Possible(cases) = Zero THEN Zero
    ELSE Div(PassedPoints(results), Possible(cases))

\* a faulty grade: the passed points divided by the number of test cases
GradePerCase(flag, cases, results) ==
    IF flag /\ ~PassedAll(results) THEN Zero
    ELSE IF flag /\ PassedAll(results) THEN One
    ELSE IF Len(cases) = 0 THEN ZeroDivisionError
    ELSE Div(PassedPoints(results), Whole(Len(cases)))

\* lines 209-217, over self.all_or_nothing, self.test_cases and
\* self.test_case_results: the value of the property, or the exception the
\* division raises
Grade(flag, cases, results) ==
    IF flag /\ ~PassedAll(results) THEN Zero
    ELSE IF flag /\ PassedAll(results) THEN One
    ELSE IF Possible(cases) = Zero THEN ZeroDivisionError
    ELSE Div(PassedPoints(results), Possible(cases))

\* the properties of instance f in the current state
FilePossible(f) == Possible(test_cases[f])
FileScore(f) == Score(_score[f], test_case_results[f])
FileGrade(f) == Grade(all_or_nothing[f], test_cases[f], test_case_results[f])

\* lines 139-146: two TestFile instances of one test file (the file loaded
\* once per graded submission), each constructed from the test cases the
\* allocator resolved and the file's all_or_nothing flag, with no results
\* and no override
InitFiles ==
    /\ \E p \in LoadedPoints : test_cases = [f \in FileIds |-> CasesOf(p)]
    /\ \E flag \in BOOLEAN : all_or_nothing = [f \in FileIds |-> flag]
    /\ test_case_results = [f \in FileIds |-> <<>>]
    /\ _score = [f \in FileIds |-> None]
    /\ raised = NoException

AllocIdle ==
    /\ pc = "return"
    /\ total_points = TotalNone
    /\ arg_cases = <<>>
    /\ outcome = Returned(<<>>)

Init == AllocIdle /\ InitFiles

ResultCount == Len(test_case_results["a"]) + Len(test_case_results["b"])

\* the executor appends the result of running test case i of file f
AppendResult(f, i, passed) ==
    /\ ResultCount < MaxResults
    /\ i \in 1..Len(test_cases[f])
    /\ test_case_results' =
          [test_case_results EXCEPT
              ![f] = Append(@, TestCaseResult(test_cases[f][i], passed))]
    /\ raised' = NoException
    /\ UNCHANGED <<test_cases, all_or_nothing, _score>>
    /\ UNCHANGED allocVars

\* lines 229-230
UpdateScore(f, new_score) ==
    /\ _score' = [_score EXCEPT ![f] = new_score]
    /\ raised' = NoException
    /\ UNCHANGED <<test_cases, all_or_nothing, test_case_results>>
    /\ UNCHANGED allocVars

\* a read of the grade property of file f: it returns FileGrade(f) or raises
ReadGrade(f) ==
    /\ UNCHANGED <<test_cases, all_or_nothing, test_case_results, _score>>
    /\ UNCHANGED allocVars
    /\ raised' = IF FileGrade(f) = ZeroDivisionError THEN "ZeroDivisionError"
                 ELSE NoException

Next ==
    \E f \in FileIds :
        \/ \E i \in 1..MaxFileCases, passed \in BOOLEAN : AppendResult(f, i, passed)
        \/ \E x \in OverrideValues : UpdateScore(f, x)
        \/ ReadGrade(f)

Spec == Init /\ [][Next]_vars

---------------------------------------------------------------------------
(* Claims about the allocator, checked under SpecAlloc *)

Returns == pc = "return"
Indices(s) == 1..Len(s)
AllNoneOrNumber(cases) == \A i \in Indices(cases) : cases[i].k \in {"none", "num"}
UnsetIn(cases) == {i \in Indices(cases) : cases[i] = None}
ExplicitIn(cases) == {i \in Indices(cases) : cases[i].k = "num"}

\* the sum of the explicit points of cases[1..m]
RECURSIVE ExplicitSum(_, _)
ExplicitSum(cases, m) ==
    IF m = 0 THEN Zero
    ELSE IF cases[m].k = "num" THEN Add(ExplicitSum(cases, m - 1), cases[m])
    ELSE ExplicitSum(cases, m - 1)

ExplicitTotal(cases) == ExplicitSum(cases, Len(cases))

\* a call with a single-number total and well-typed cases
NumericCall == Returns /\ total_points.kind = "num" /\ AllNoneOrNumber(arg_cases)
\* a call with no total and well-typed cases
UnsetCall == Returns /\ total_points.kind = "none" /\ AllNoneOrNumber(arg_cases)

\* C1 as stated: with a single-number total and no OverAllocation, the
\* resolved points sum to total_points, also when every case has explicit
\* points and when the list is empty.
C1_SumEqualsTotal ==
    (NumericCall /\ outcome.err # "OverAllocation")
        => Sum(outcome.points) = total_points.num

\* C1 amended: with a single-number total and no OverAllocation, the
\* resolved points sum to total_points when at least one case is unset; when
\* no case is unset (every case explicit, or no case at all) nothing is
\* distributed and they sum to the explicit points.
C1_SumEqualsTotalWhenUnset ==
    (NumericCall /\ outcome.err # "OverAllocation")
        => /\ outcome.err = "ok"
           /\ Len(outcome.points) = Len(arg_cases)
           /\ UnsetIn(arg_cases) # {} => Sum(outcome.points) = total_points.num
           /\ UnsetIn(arg_cases) = {} => Sum(outcome.points) = ExplicitTotal(arg_cases)

C1_Witness ==
    /\ NumericCall /\ outcome.err = "ok"
    /\ UnsetIn(arg_cases) # {} /\ ExplicitIn(arg_cases) # {}
    /\ Less(ExplicitTotal(arg_cases), total_points.num)
    /\ Sum(outcome.points) = total_points.num

\* C2: with a single-number total, the call fails with OverAllocation,
\* returning no test cases, exactly when the explicit points sum to more
\* than total_points.
C2_OverAllocationIff ==
    NumericCall
        => /\ outcome.err = "OverAllocation"
                <=> Less(total_points.num, ExplicitTotal(arg_cases))
           /\ outcome.err = "OverAllocation" => outcome.points = <<>>

\* points [2, unset] with total 1
C2_Witness ==
    /\ NumericCall
    /\ arg_cases = <<Whole(2), None>> /\ total_points = TotalNum(One)
    /\ outcome.err = "OverAllocation"

\* C3 as stated: with no total and every case unset or 0, each unset case
\* gets 1/(number of unset cases), each 0 stays 0, and when every case is
\* unset the resolved points sum to 1.
C3_ImplicitTotalOne ==
    (UnsetCall /\ \A i \in Indices(arg_cases) : arg_cases[i] \in {None, Zero})
        => /\ outcome.err = "ok"
           /\ Len(outcome.points) = Len(arg_cases)
           /\ \A i \in UnsetIn(arg_cases) :
                 outcome.points[i] = Div(One, Whole(Cardinality(UnsetIn(arg_cases))))
           /\ \A i \in ExplicitIn(arg_cases) : outcome.points[i] = Zero
           /\ UnsetIn(arg_cases) = Indices(arg_cases) => Sum(outcome.points) = One

\* C3 amended: as stated, the sum being 1 when there is at least one test
\* case and every one is unset; for the empty list the result is empty and
\* sums to 0.
C3_ImplicitTotalOneNonEmpty ==
    (UnsetCall /\ \A i \in Indices(arg_cases) : arg_cases[i] \in {None, Zero})
        => /\ outcome.err = "ok"
           /\ Len(outcome.points) = Len(arg_cases)
           /\ \A i \in UnsetIn(arg_cases) :
                 outcome.points[i] = Div(One, Whole(Cardinality(UnsetIn(arg_cases))))
           /\ \A i \in ExplicitIn(arg_cases) : outcome.points[i] = Zero
           /\ (arg_cases # <<>> /\ UnsetIn(arg_cases) = Indices(arg_cases))
                 => Sum(outcome.points) = One
           /\ arg_cases = <<>> => Sum(outcome.points) = Zero

\* points [0, unset, unset] resolve to [0, 1/2, 1/2]
C3_Witness ==
    /\ UnsetCall
    /\ arg_cases = <<Zero, None, None>>
    /\ outcome = Returned(<<Zero, Num(1, 2), Num(1, 2)>>)

\* no total, an explicit non-zero value and an unset case
MixedCall ==
    /\ UnsetCall
    /\ UnsetIn(arg_cases) # {}
    /\ \E i \in ExplicitIn(arg_cases) : arg_cases[i] # Zero

\* C4 as stated: with no total, an explicit non-zero value and unset cases,
\* every unset case gets 0 and every explicit value is kept, also when the
\* explicit values sum to zero.
C4_UnsetGetZero ==
    MixedCall
        => /\ outcome.err = "ok"
           /\ \A i \in UnsetIn(arg_cases) : outcome.points[i] = Zero
           /\ \A i \in ExplicitIn(arg_cases) : outcome.points[i] = arg_cases[i]

\* C4 amended: every explicit value is kept; every unset case gets 0 when
\* the explicit values sum to a non-zero number, and 1/(number of test
\* cases) when they sum to zero.
C4_UnsetGetZeroUnlessZeroSum ==
    MixedCall
        => /\ outcome.err = "ok"
           /\ Len(outcome.points) = Len(arg_cases)
           /\ \A i \in ExplicitIn(arg_cases) : outcome.points[i] = arg_cases[i]
           /\ \A i \in UnsetIn(arg_cases) :
                 outcome.points[i] =
                    IF ExplicitTotal(arg_cases) # Zero THEN Zero
                    ELSE Div(One, Whole(Len(arg_cases)))

\* points [2, unset, 0] resolve to [2, 0, 0]
C4_Witness ==
    /\ MixedCall
    /\ arg_cases = <<Whole(2), None, Zero>>
    /\ outcome = Returned(<<Whole(2), Zero, Zero>>)

\* C5: with a list total the call fails with LengthMismatch, producing no
\* test cases, exactly when the list's length differs from the number of
\* test cases, whatever the cases' points are.
C5_LengthMismatchIff ==
    (Returns /\ total_points.kind = "list")
        => /\ outcome.err = "LengthMismatch"
                <=> Len(total_points.list) # Len(arg_cases)
           /\ outcome.err = "LengthMismatch" => outcome.points = <<>>

\* a list longer than the test cases, and one shorter
C5_Witness ==
    /\ Returns /\ total_points.kind = "list"
    /\ Len(total_points.list) > Len(arg_cases) /\ arg_cases # <<>>
    /\ \E i \in Indices(arg_cases) : arg_cases[i] = Other
    /\ outcome.err = "LengthMismatch"

---------------------------------------------------------------------------
(* Claims about TestFile, checked under Spec *)

Other_(f) == CHOOSE g \in FileIds : g # f
Results(f) == test_case_results[f]
PointsOf(f) == [i \in 1..Len(test_cases[f]) |-> test_cases[f][i].points]
\* the sum of the points of all test cases of f
PointsTotal(f) == ExplicitTotal(PointsOf(f))
EveryResultPassed(f) == \A j \in 1..Len(Results(f)) : Results(f)[j].passed = TRUE
Overridden(f) == _score[f] # None
IsAppend(f) == \E i \in 1..MaxFileCases, passed \in BOOLEAN : AppendResult(f, i, passed)
IsUpdateScore(f) == \E x \in OverrideValues : UpdateScore(f, x)
\* the properties of instance f in the next state
FilePossibleNext(f) == Possible(test_cases'[f])
FileScoreNext(f) == Score(_score'[f], test_case_results'[f])
FileStateUnchanged == UNCHANGED <<test_cases, all_or_nothing, test_case_results, _score>>

\* C6: for an all-or-nothing file, in every state reached by appends and
\* update_score calls, grade is 1 if every TestCaseResult in the file passed
\* and 0 otherwise, whatever the points and the override are.
C6_AllOrNothingGrade ==
    \A f \in FileIds :
        all_or_nothing[f]
            => FileGrade(f) = IF EveryResultPassed(f) THEN One ELSE Zero

\* an all-or-nothing file with an override, all its results passed and a
\* grade of 1, while its sibling holds a failed result and has grade 0
C6_Witness ==
    \E f \in FileIds :
        /\ all_or_nothing[f] /\ Overridden(f)
        /\ Len(Results(f)) >= 1 /\ EveryResultPassed(f)
        /\ Len(Results(Other_(f))) >= 1 /\ ~EveryResultPassed(Other_(f))
        /\ FileGrade(Other_(f)) = Zero
        /\ FileGrade(f) = One

\* C7 as stated: for a file that is not all-or-nothing, appending a passed
\* result never lowers score, whatever points the allocator resolved.
C7_ScoreMonotone ==
    [][\A f \in FileIds : \A i \in 1..MaxFileCases :
          (AppendResult(f, i, TRUE) /\ ~all_or_nothing[f])
              => Leq(FileScore(f), FileScoreNext(f))]_vars

\* C7 amended: for a file that is not all-or-nothing, appending a passed
\* result never lowers score when the result's test case has resolved
\* points >= 0 or a manual override is set; with no override, a passed
\* result for a case with negative points changes score by those points.
C7_ScoreMonotoneNonNegative ==
    [][\A f \in FileIds : \A i \in 1..MaxFileCases :
          (AppendResult(f, i, TRUE) /\ ~all_or_nothing[f])
              => /\ (Leq(Zero, test_cases[f][i].points) \/ Overridden(f))
                        => Leq(FileScore(f), FileScoreNext(f))
                 /\ (Less(test_cases[f][i].points, Zero) /\ ~Overridden(f))
                        => FileScoreNext(f) = Add(FileScore(f), test_cases[f][i].points)]_vars

\* two passed results, the second for a case with positive points, on a
\* file that is not all-or-nothing and has no override
C7_Witness ==
    \E f \in FileIds :
        /\ ~all_or_nothing[f] /\ ~Overridden(f)
        /\ Len(Results(f)) = 2 /\ EveryResultPassed(f)
        /\ Less(Zero, Results(f)[2].test_case.points)
        /\ Less(Zero, Results(f)[1].test_case.points)
        /\ FileScore(f) = Add(Results(f)[1].test_case.points, Results(f)[2].test_case.points)

\* C8: update_score(x) on a file makes its score x; the score stays at the
\* override through every step that is not an update_score on that file
\* (appends to it, any operation on the other instance); update_score leaves
\* the other instance's override and score alone, and does not change possible.
C8_OverrideHolds ==
    [][\A f \in FileIds :
          /\ \A x \in OverrideValues :
                UpdateScore(f, x)
                    => /\ FileScoreNext(f) = x
                       /\ FilePossibleNext(f) = FilePossible(f)
                       /\ \A g \in FileIds \ {f} :
                             /\ _score'[g] = _score[g]
                             /\ FileScoreNext(g) = FileScore(g)
          /\ (Overridden(f) /\ ~IsUpdateScore(f))
                => FileScoreNext(f) = _score[f] /\ FileScore(f) = _score[f]]_vars

\* a file overridden to 0 that holds a passed result worth points, beside an
\* instance with no override whose score is computed from its results
C8_Witness ==
    \E f \in FileIds :
        /\ _score[f] = Zero /\ FileScore(f) = Zero
        /\ Less(Zero, PassedPoints(Results(f)))
        /\ ~Overridden(Other_(f))
        /\ Less(Zero, FileScore(Other_(f)))

\* C9: on a file that is not all-or-nothing and whose test cases' points
\* sum to zero, grade has no value but ZeroDivisionError, whatever results
\* are present, and a read of it raises that error; the read changes no
\* file's test cases, flag, results or override.
C9_GradeDivisionByZero ==
    [][\A f \in FileIds :
          /\ (~all_or_nothing[f] /\ PointsTotal(f) = Zero)
                => FileGrade(f) = ZeroDivisionError
          /\ ReadGrade(f)
                => /\ (~all_or_nothing[f] /\ PointsTotal(f) = Zero)
                          => raised' = "ZeroDivisionError"
                   /\ FileStateUnchanged]_vars

\* the failed read on a file with zero-point test cases and a passed result,
\* beside an instance holding a result and an override
C9_Witness ==
    \E f \in FileIds :
        /\ raised = "ZeroDivisionError"
        /\ ~all_or_nothing[f]
        /\ Len(test_cases[f]) >= 1 /\ PointsTotal(f) = Zero
        /\ Len(Results(f)) >= 1 /\ EveryResultPassed(f)
        /\ Overridden(Other_(f))

\* at most one TestCaseResult per test case
OneResultPerCase(f) ==
    \A j, k \in 1..Len(Results(f)) :
        Results(f)[j].test_case.name = Results(f)[k].test_case.name => j = k

C10_Case(f) ==
    /\ ~all_or_nothing[f]
    /\ \A i \in 1..Len(test_cases[f]) : Leq(Zero, test_cases[f][i].points)
    /\ Less(Zero, PointsTotal(f))
    /\ OneResultPerCase(f)
    /\ ~Overridden(f)

\* C10: for a file that is not all-or-nothing, with points all >= 0 and
\* possible > 0, at most one result per test case and no override:
\* 0 <= score <= possible, 0 <= grade <= 1 and grade = score / possible.
C10_ScoreAndGradeBounded ==
    \A f \in FileIds :
        C10_Case(f)
            => /\ FilePossible(f) = PointsTotal(f)
               /\ Leq(Zero, FileScore(f)) /\ Leq(FileScore(f), FilePossible(f))
               /\ FileGrade(f).k = "num"
               /\ Leq(Zero, FileGrade(f)) /\ Leq(FileGrade(f), One)
               /\ FileGrade(f) = Div(FileScore(f), FilePossible(f))

\* one of two cases passed and one failed: score and grade strictly inside
\* their ranges
C10_Witness ==
    \E f \in FileIds :
        /\ C10_Case(f)
        /\ Len(Results(f)) = 2 /\ ~EveryResultPassed(f)
        /\ Less(Zero, FileScore(f)) /\ Less(FileScore(f), FilePossible(f))
        /\ Less(Zero, FileGrade(f)) /\ Less(FileGrade(f), One)

===========================================================================
